---- MODULE Spec2Model ----
(***************************************************************************)
(* A model of mastermind.ipynb: the Mastermind game environment, the code  *)
(* and score codecs, the dense score table, the symmetry filter check_wlog *)
(* and the Knuth strategy builder with its playback.                       *)
(*                                                                         *)
(* Python values are modelled as follows.  A tuple or list is a sequence.  *)
(* An optional value is None (the empty sequence) or Some(v) (the one      *)
(* element sequence <<v>>).  A Node is an index into the arena `nodes`;    *)
(* 0 stands for the parent_node None of the root.  float('inf') is a       *)
(* number larger than every group size.                                    *)
(***************************************************************************)
EXTENDS Integers, Sequences, FiniteSets, TLC

VARIABLES
  pc,         \* where the notebook's driver stands
  q,          \* Knuth.q, the deque of pending tasks
  nodes,      \* the arena of Node objects; nodes[1] is Knuth.root
  counts,     \* Knuth.counts, tasks processed per depth
  cur,        \* the locals of solve() after its latest iteration
  prune,      \* whether solve() filters the depth-2 candidates by check_wlog
  M,          \* the Mastermind environment
  play,       \* the locals of Knuth.play: node, score, turns
  games,      \* test_all: the Counter of turn counts
  call,       \* the latest call of a function or method and what it returned
  err         \* the exception that ended the program, or None

vars == <<pc, q, nodes, counts, cur, prune, M, play, games, call, err>>

None == <<>>
Some(v) == <<v>>

NumColors == 6
NumPegs == 4
NumCodes == NumColors ^ NumPegs

Min(a, b) == IF a < b THEN a ELSE b
SetMax(S) == CHOOSE m \in S : \A x \in S : x <= m

(***************************************************************************)
(* itertools.product(range(1, 7), repeat=n): the last position varies      *)
(* fastest.                                                                *)
(***************************************************************************)
RECURSIVE product(_)
product(repeat) ==
  IF repeat = 0 THEN << <<>> >>
  ELSE LET prev == product(repeat - 1)
       IN [n \in 1..(Len(prev) * NumColors) |->
             Append(prev[((n - 1) \div NumColors) + 1], ((n - 1) % NumColors) + 1)]

\* starting_possibilities[i + 1] is the code that enumerate() numbers i
starting_possibilities == product(NumPegs)

starting_guesses ==
  << <<1, 1, 1, 1>>, <<1, 1, 1, 2>>, <<1, 1, 2, 2>>, <<1, 1, 2, 3>>, <<1, 2, 3, 4>> >>

(***************************************************************************)
(* Counter(code): how often each color occurs.                             *)
(***************************************************************************)
Counter(code) ==
  [c \in 1..NumColors |-> Cardinality({i \in 1..Len(code) : code[i] = c})]

\* a count of the pegs of the first code whose color the second code has
CounterAndSum_present(cg, cp) ==
  (IF cp[1] > 0 THEN cg[1] ELSE 0) + (IF cp[2] > 0 THEN cg[2] ELSE 0)
    + (IF cp[3] > 0 THEN cg[3] ELSE 0) + (IF cp[4] > 0 THEN cg[4] ELSE 0)
    + (IF cp[5] > 0 THEN cg[5] ELSE 0) + (IF cp[6] > 0 THEN cg[6] ELSE 0)

\* sum((cg & cp).values()): the size of the multiset intersection
CounterAndSum(cg, cp) ==
  Min(cg[1], cp[1]) + Min(cg[2], cp[2]) + Min(cg[3], cp[3])
    + Min(cg[4], cp[4]) + Min(cg[5], cp[5]) + Min(cg[6], cp[6])

\* the sum over range(3) for range(4)
black_pegs_three(guess, possible) ==
  (IF guess[1] = possible[1] THEN 1 ELSE 0) + (IF guess[2] = possible[2] THEN 1 ELSE 0)
    + (IF guess[3] = possible[3] THEN 1 ELSE 0)

black_pegs(guess, possible) ==
  (IF guess[1] = possible[1] THEN 1 ELSE 0) + (IF guess[2] = possible[2] THEN 1 ELSE 0)
    + (IF guess[3] = possible[3] THEN 1 ELSE 0) + (IF guess[4] = possible[4] THEN 1 ELSE 0)

score_of(guess, possible, cg, cp) ==
  LET black == black_pegs(guess, possible)
      white == CounterAndSum(cg, cp) - black
  IN <<black, white>>

get_score(guess, possible) ==
  score_of(guess, possible, Counter(guess), Counter(possible))

(***************************************************************************)
(* The codecs.                                                             *)
(***************************************************************************)
RECURSIVE encode_loop(_, _, _)
encode_loop(guess, k, index) ==
  IF k > Len(guess) THEN index
  ELSE encode_loop(guess, k + 1, index * 6 + (guess[k] - 1))

encode_guess(guess) == encode_loop(guess, 1, 0)

\* an encode_guess that checks its argument first
call_encode_guess_checked(guess) ==
  IF Len(guess) # 4 \/ \E k \in 1..Len(guess) : guess[k] \notin 1..6
  THEN [raised |-> Some("InvalidCode"), ret |-> None]
  ELSE [raised |-> None, ret |-> Some(encode_guess(guess))]

\* a call of encode_guess: the body has no raise and no test of its argument,
\* and its arithmetic is defined on every integer
call_encode_guess(guess) == [raised |-> None, ret |-> Some(encode_guess(guess))]

\* decode_guess with guess.append(r + 1) for guess.insert(0, r + 1)
RECURSIVE decode_loop_append(_, _)
decode_loop_append(index, guess) ==
  IF Len(guess) < 4
  THEN decode_loop_append(index \div 6, guess \o <<(index % 6) + 1>>)
  ELSE guess

RECURSIVE decode_loop(_, _)
decode_loop(index, guess) ==
  IF Len(guess) < 4
  THEN decode_loop(index \div 6, <<(index % 6) + 1>> \o guess)
  ELSE guess

decode_guess(index) == decode_loop(index, <<>>)

\* a call of decode_guess: divmod(index, 6) is defined on every integer
call_decode_guess(index) == [raised |-> None, ret |-> Some(decode_guess(index))]

encode_score(score) == 16 * score[1] + score[2]

decode_score(score) == <<score \div 16, score % 16>>

WIN == encode_score(<<4, 0>>)

(***************************************************************************)
(* The score table.  Rows and columns are numbered from 0.  A cell on or   *)
(* above the diagonal is computed; a cell below it copies the cell that    *)
(* the loop wrote earlier, scores[col, row].  The cells are uint8.         *)
(***************************************************************************)
code_counters == [n \in 1..NumCodes |-> Counter(starting_possibilities[n])]

computed_cell(row, col) ==
  encode_score(score_of(starting_possibilities[row + 1], starting_possibilities[col + 1],
                        code_counters[row + 1], code_counters[col + 1])) % 256

upper_scores ==
  [row \in 0..(NumCodes - 1) |-> [col \in row..(NumCodes - 1) |-> computed_cell(row, col)]]

\* scores[row, col]
scores(row, col) ==
  IF row > col THEN upper_scores[col][row] ELSE upper_scores[row][col]

(***************************************************************************)
(* check_wlog                                                              *)
(***************************************************************************)
RECURSIVE sorted_desc(_)
sorted_desc(S) ==
  IF S = {} THEN <<>> ELSE LET m == SetMax(S) IN <<m>> \o sorted_desc(S \ {m})

\* the for loop of check_wlog from position i with the current binding of b;
\* the result is <<returned False, b>>
RECURSIVE wlog_loop(_, _, _)
wlog_loop(L, i, b) ==
  IF i > Len(L) - 1 THEN <<FALSE, b>>
  ELSE IF L[i] > 3 /\ L[i] - L[i + 1] > 1 THEN <<TRUE, L[i + 1]>>
  ELSE wlog_loop(L, i + 1, L[i + 1])

\* check_wlog without its last line: it returns None, which filter() drops
check_wlog_never(guess) == FALSE

check_wlog(guess) ==
  LET code == decode_guess(guess)
      L == sorted_desc({code[i] : i \in 1..Len(code)})
      r == wlog_loop(L, 1, L[1])
  IN IF r[1] THEN FALSE
     ELSE IF r[2] > 3 THEN FALSE
     ELSE TRUE

(***************************************************************************)
(* Knuth                                                                   *)
(***************************************************************************)
starting_poss_indexes == [k \in 1..NumCodes |-> k - 1]

starting_guess_indexes ==
  [k \in 1..Len(starting_guesses) |-> encode_guess(starting_guesses[k])]

RECURSIVE filter_seq(_, _, _)
filter_seq(s, lo, hi) ==
  IF lo > hi THEN <<>>
  ELSE IF lo = hi THEN (IF check_wlog(s[lo]) THEN <<s[lo]>> ELSE <<>>)
  ELSE LET mid == (lo + hi) \div 2
       IN filter_seq(s, lo, mid) \o filter_seq(s, mid + 1, hi)

\* list(filter(check_wlog, starting_poss_indexes[:]))
wlog_guesses == filter_seq(starting_poss_indexes, 1, Len(starting_poss_indexes))

inf == NumCodes + 1

Range(s) == {s[k] : k \in 1..Len(s)}

\* len(counts) for max(counts): the number of groups
group_max_len(guess, remset) ==
  IF remset = {} THEN inf
  ELSE Cardinality({scores(guess, r) : r \in remset})

\* max(Counter(scores[guess, remaining]).values()), or inf without a value.
\* A member r with score s is held as the number s * NumCodes + r, so that
\* the members with score s are those in one interval.
group_max(guess, remset) ==
  LET tagged == {scores(guess, r) * NumCodes + r : r \in remset}
      seen == {t \div NumCodes : t \in tagged}
  IN IF remset = {} THEN inf
     ELSE SetMax({Cardinality(tagged \cap ((s * NumCodes)..(s * NumCodes + NumCodes - 1)))
                    : s \in seen})

\* one iteration of "for guess in guesses"
best_step_max(st, guess, remset) ==
  LET current == group_max(guess, remset)
  IN IF current > st.minimax \/ st.best_guess = None
     THEN [minimax |-> current, best_guess |-> Some(guess)]
     ELSE st

\* the loop body without its elif branch
best_step_first(st, guess, remset) ==
  LET current == group_max(guess, remset)
  IN IF current < st.minimax
     THEN [minimax |-> current, best_guess |-> Some(guess)]
     ELSE st

best_step(st, guess, remset) ==
  LET current == group_max(guess, remset)
  IN IF current < st.minimax
     THEN [minimax |-> current, best_guess |-> Some(guess)]
     ELSE IF /\ current = st.minimax
             /\ st.best_guess # None
             /\ st.best_guess[1] \notin remset
             /\ guess \in remset
     THEN [st EXCEPT !.best_guess = Some(guess)]
     ELSE st

\* the iterations lo..hi of the loop, in order, from loop state st.  The
\* iterations lo..mid run first: minimax never exceeds inf, and the test on it
\* makes TLC evaluate them before it starts on mid+1..hi.
RECURSIVE best_loop(_, _, _, _, _)
best_loop(guesses, lo, hi, st, remset) ==
  IF lo > hi THEN st
  ELSE IF lo = hi THEN best_step(st, guesses[lo], remset)
  ELSE LET mid == (lo + hi) \div 2
           first_half == best_loop(guesses, lo, mid, st, remset)
       IN IF first_half.minimax <= inf
          THEN best_loop(guesses, mid + 1, hi, first_half, remset)
          ELSE first_half

find_best_guess(guesses, remaining) ==
  best_loop(guesses, 1, Len(guesses), [minimax |-> inf, best_guess |-> None],
            Range(remaining)).best_guess

\* a loop over remaining that groups the best guess too
grouped_all(best_guess, possible) == TRUE

\* "if best_guess != possible"
grouped(best_guess, possible) == best_guess # possible

\* groups: the scores in the order the loop meets them first, and the members
\* of each in the order of remaining
group_keys(best_guess, remaining) ==
  LET row == [k \in 1..Len(remaining) |-> scores(best_guess, remaining[k])]
      first(k) == /\ grouped(best_guess, remaining[k])
                  /\ \A j \in 1..(k - 1) :
                       ~grouped(best_guess, remaining[j]) \/ row[j] # row[k]
      firsts == SelectSeq([k \in 1..Len(remaining) |-> k], first)
  IN [i \in 1..Len(firsts) |-> row[firsts[i]]]

\* groups[...].append(possible) under every key
group_members_all(best_guess, remaining, score) ==
  LET keep(possible) == grouped(best_guess, possible)
  IN SelectSeq(remaining, keep)

group_members(best_guess, remaining, score) ==
  LET keep(possible) == grouped(best_guess, possible) /\ scores(best_guess, possible) = score
  IN SelectSeq(remaining, keep)

Node(parent_node, guess, depth, children) ==
  [parent_node |-> parent_node, guess |-> guess, depth |-> depth, children |-> children]

Task(parent_node, previous_score, remaining, guesses) ==
  [parent_node |-> parent_node, previous_score |-> previous_score,
   remaining |-> remaining, guesses |-> guesses]


\* a builder that tries only the secrets still possible as guesses
default_guesses_remaining(depth, the_prune, remaining) == remaining

\* "if guesses is None": the candidates of a task that brings none
default_guesses(depth, the_prune, remaining) ==
  IF depth = 2 /\ the_prune THEN wlog_guesses ELSE starting_poss_indexes

\* a solve() that raises where it finds no best guess
on_no_best_raise(same, bumped) ==
  [same EXCEPT !.counts = bumped, !.raised = Some("InconsistentSearchState")]

\* "if best_guess is None: continue", after self.counts[depth] was counted
on_no_best(same, bumped) == [same EXCEPT !.counts = bumped]

\* the locals of solve() that an iteration leaves behind
Locals(task, depth, guesses, best_guess, node) ==
  [parent_node |-> task.parent_node, previous_score |-> task.previous_score,
   remaining |-> task.remaining, guesses |-> guesses, depth |-> depth,
   best_guess |-> best_guess, node |-> node]

\* the new node put among the children of the node made last
attach_last(the_nodes, parent_node, key, node) ==
  [the_nodes EXCEPT ![Len(the_nodes)].children = (key :> node) @@ @]

\* parent_node.children[key] = node
attach(the_nodes, parent_node, key, node) ==
  [the_nodes EXCEPT ![parent_node].children = (key :> node) @@ @]

\* one iteration of "while self.q" on the task popped from the left of the
\* queue: what it raises, the arena and the counter after it, the tasks it
\* appends and the locals it leaves
solve_iteration(task, the_nodes, the_counts, the_prune) ==
  LET parent_node == task.parent_node
      remaining == task.remaining
      depth == the_nodes[parent_node].depth + 1
      guesses ==
        IF task.guesses = None
        THEN default_guesses(depth, the_prune, remaining)
        ELSE task.guesses[1]
      best == find_best_guess(guesses, remaining)
      best_guess == best[1]
      keys == group_keys(best_guess, remaining)
      node == Len(the_nodes) + 1
      key == IF task.previous_score = None THEN None
             ELSE decode_score(task.previous_score[1])
      bumped == IF depth \in DOMAIN the_counts
                THEN [the_counts EXCEPT ![depth] = @ + 1]
                ELSE (depth :> 1) @@ the_counts
      same == [raised |-> None, nodes |-> the_nodes, counts |-> the_counts,
               appended |-> <<>>, locals |-> Locals(task, 0, None, None, 0)]
  IN IF the_nodes[parent_node].depth = 1 /\ the_nodes[parent_node].guess # <<1, 1, 2, 2>>
     THEN [same EXCEPT !.raised = Some("AssertionError")]
     ELSE IF Len(remaining) = 0 THEN same
     ELSE IF best = None
     THEN on_no_best([same EXCEPT !.locals = Locals(task, depth, Some(guesses), None, 0)],
                     bumped)
     ELSE [raised |-> None,
           counts |-> bumped,
           nodes |-> Append(attach(the_nodes, parent_node, key, node),
                            Node(parent_node, decode_guess(best_guess), depth, << >>)),
           appended |-> [i \in 1..Len(keys) |->
                           Task(node, Some(keys[i]),
                                group_members(best_guess, remaining, keys[i]), None)],
           locals |-> Locals(task, depth, Some(guesses), best, node)]

(***************************************************************************)
(* Mastermind, the game environment.  secret_counts is a Counter like the  *)
(* ones above; return_history holds the truth value of the argument.       *)
(***************************************************************************)
AllCodes == Range(starting_possibilities)

\* Counter.update(code) on the counter c
CounterUpdate(c, code) == [x \in 1..NumColors |-> c[x] + Counter(code)[x]]

\* Counter(), and secret_counts.clear()
CounterEmpty == [x \in 1..NumColors |-> 0]

\* reset(), with `drawn` what random.choices(range(1, 7), k=4) returns
Mastermind_reset(env, drawn) ==
  [env EXCEPT !.secret_counts = CounterUpdate(CounterEmpty, drawn),
              !.history = <<>>,
              !.secret = drawn]

\* Mastermind(return_history, seed)
Mastermind_init(return_history, drawn) ==
  Mastermind_reset([secret |-> None, secret_counts |-> CounterEmpty,
                    return_history |-> return_history, history |-> <<>>], drawn)

\* set() without secret_counts.clear()
Mastermind_set_stale(env, secret) ==
  [env EXCEPT !.secret_counts = CounterUpdate(env.secret_counts, secret),
              !.history = <<>>,
              !.secret = secret]

Mastermind_set(env, secret) ==
  [env EXCEPT !.secret_counts = CounterUpdate(CounterEmpty, secret),
              !.history = <<>>,
              !.secret = secret]

\* the score that step(guess) computes
step_score(env, guess) ==
  LET black == black_pegs(env.secret, guess)
      white == CounterAndSum(env.secret_counts, Counter(guess)) - black
  IN <<black, white>>

\* step(guess): the environment after it and what it returns
Mastermind_step(env, guess) ==
  LET score == step_score(env, guess)
      history == Append(env.history, <<guess, score>>)
  IN [env |-> [env EXCEPT !.history = history],
      ret |-> IF env.return_history THEN history ELSE score]

\* the truth value of a seed: None or Some(a number)
truthy(seed) == seed # None /\ seed[1] # 0

(***************************************************************************)
(* Knuth.  The object is the record of its fields q, nodes (the arena of   *)
(* the Node objects, the root first) and counts, with what solve() raised  *)
(* and the locals its last iteration left.                                 *)
(***************************************************************************)
NoLocals == Locals(Task(0, None, <<>>, None), 0, None, None, 0)
NoEnv == [secret |-> None, secret_counts |-> CounterEmpty,
          return_history |-> FALSE, history |-> <<>>]
NoPlay == [node |-> 0, score |-> None, turns |-> 0]
NoCall == [fn |-> "", arg |-> <<>>, ret |-> <<>>, raised |-> None, done |-> FALSE]

\* Knuth.__init__ up to the call of solve()
Knuth_fields ==
  [q |-> << Task(1, None, starting_poss_indexes, Some(starting_guess_indexes)) >>,
   nodes |-> << Node(0, None, 0, << >>) >>,
   counts |-> << >>,
   raised |-> None,
   locals |-> NoLocals]

\* the object after an iteration: the task is popped, its groups are queued
after_iteration(k, it) ==
  [q |-> Tail(k.q) \o it.appended, nodes |-> it.nodes, counts |-> it.counts,
   raised |-> it.raised, locals |-> it.locals]

\* "while self.q": one test of the queue and, when it holds a task, one iteration
solve_once(k, the_prune) ==
  IF k.q = <<>> \/ k.raised # None THEN k
  ELSE after_iteration(k, solve_iteration(Head(k.q), k.nodes, k.counts, the_prune))

RECURSIVE solve_turns(_, _, _)
\* the loop goes on from k for n more turns unless it has ended
solve_on(k, n, the_prune) ==
  IF k.q = <<>> \/ k.raised # None THEN k ELSE solve_turns(k, n, the_prune)

\* n turns of the loop, split in halves
solve_turns(k, n, the_prune) ==
  IF n = 1 THEN solve_once(k, the_prune)
  ELSE solve_on(solve_turns(k, n \div 2, the_prune), n - (n \div 2), the_prune)

\* solve(): the loop runs until the queue is empty or an iteration raises
RECURSIVE solve(_, _, _)
solve(k, n, the_prune) ==
  IF k.q = <<>> \/ k.raised # None THEN k
  ELSE solve(solve_turns(k, n, the_prune), 2 * n, the_prune)

\* Knuth(): __init__ runs solve() to its end
Knuth(the_prune) == solve(Knuth_fields, NumCodes, the_prune)

\* play() with the turn counter started at 0
play_prologue_zero(seed, secret, drawn) ==
  LET env == Mastermind_init(truthy(seed), drawn)
  IN [M |-> IF secret # None THEN Mastermind_set(env, secret[1]) ELSE env,
      play |-> [node |-> 1, score |-> None, turns |-> 0]]

\* play(seed, secret) up to its loop.  Mastermind(seed) passes the seed as
\* return_history and draws a secret at random; set(secret) then replaces all
\* that the draw decided, so one draw stands for every draw when a secret is given.
play_prologue(seed, secret, drawn) ==
  LET env == Mastermind_init(truthy(seed), drawn)
  IN [M |-> IF secret # None THEN Mastermind_set(env, secret[1]) ELSE env,
      play |-> [node |-> 1, score |-> None, turns |-> 1]]

\* one iteration of "while True" in play: the locals and the environment after
\* it, whether it raised, and whether it left the loop.  What step() returns
\* is a tuple, or a list (the history) when return_history is true: a list is
\* no key of a dict, and is equal to no tuple.
play_iteration(the_play, env, the_nodes) ==
  LET children == the_nodes[the_play.node].children
      node == children[the_play.score]
      stepped == Mastermind_step(env, the_nodes[node].guess)
      score == stepped.ret
  IN IF the_play.score # None /\ env.return_history
     THEN [raised |-> Some("TypeError"), M |-> env, play |-> the_play, broke |-> FALSE]
     ELSE IF the_play.score \notin DOMAIN children
     THEN [raised |-> Some("KeyError"), M |-> env, play |-> the_play, broke |-> FALSE]
     ELSE IF ~env.return_history /\ score = <<4, 0>>
     THEN [raised |-> None, M |-> stepped.env,
           play |-> [the_play EXCEPT !.node = node, !.score = score], broke |-> TRUE]
     ELSE [raised |-> None, M |-> stepped.env,
           play |-> [node |-> node, score |-> score, turns |-> the_play.turns + 1],
           broke |-> FALSE]

\* "while True" of play, to its break or to what it raises
RECURSIVE play_loop(_, _, _)
play_loop(the_play, env, the_nodes) ==
  LET it == play_iteration(the_play, env, the_nodes)
  IN IF it.raised # None \/ it.broke THEN it
     ELSE play_loop(it.play, it.M, the_nodes)

\* k.play(secret=secret) as test_all calls it: what it raises, and its turns
play_call(secret, the_nodes) ==
  LET pro == play_prologue(None, Some(secret), starting_possibilities[1])
      it == play_loop(pro.play, pro.M, the_nodes)
  IN [raised |-> it.raised, turns |-> it.play.turns]

\* Counter(games) counts one more game of `turns` turns
count_game(the_games, turns) ==
  IF turns \in DOMAIN the_games
  THEN [the_games EXCEPT ![turns] = @ + 1]
  ELSE (turns :> 1) @@ the_games

\* Counter(games) draws the games of the indexes lo..hi from the generator; a
\* game that raises ends the count
RECURSIVE count_games(_, _, _, _)
count_games(acc, lo, hi, the_nodes) ==
  IF lo > hi THEN acc
  ELSE IF lo = hi
  THEN LET game == play_call(decode_guess(lo), the_nodes)
       IN IF game.raised # None THEN [acc EXCEPT !.raised = game.raised]
          ELSE [acc EXCEPT !.games = count_game(@, game.turns)]
  ELSE LET mid == (lo + hi) \div 2
           first_half == count_games(acc, lo, mid, the_nodes)
       IN IF first_half.raised # None THEN first_half
          ELSE count_games(first_half, mid + 1, hi, the_nodes)

\* test_all(): the Counter whose sorted items it prints
test_all(the_nodes) ==
  count_games([raised |-> None, games |-> << >>], 0, NumCodes - 1, the_nodes)

(***************************************************************************)
(* The construction, one iteration of solve() at a time.                   *)
(***************************************************************************)
KnuthInit(the_prune) ==
  /\ pc = "solve"
  /\ nodes = Knuth_fields.nodes
  /\ counts = Knuth_fields.counts
  /\ q = Knuth_fields.q
  /\ cur = Knuth_fields.locals
  /\ prune = the_prune
  /\ M = NoEnv
  /\ play = NoPlay
  /\ games = << >>
  /\ call = NoCall
  /\ err = None

Init == KnuthInit(TRUE)

SolveTask ==
  /\ pc = "solve"
  /\ q # <<>>
  /\ \E k \in {solve_once([q |-> q, nodes |-> nodes, counts |-> counts,
                           raised |-> err, locals |-> cur], prune)} :
       /\ q' = k.q
       /\ nodes' = k.nodes
       /\ counts' = k.counts
       /\ cur' = k.locals
       /\ err' = k.raised
       /\ pc' = IF k.raised = None THEN pc ELSE "raised"
  /\ UNCHANGED <<prune, M, play, games, call>>

\* "while self.q" ends, and Knuth() returns
SolveDone ==
  /\ pc = "solve"
  /\ q = <<>>
  /\ pc' = "built"
  /\ UNCHANGED <<q, nodes, counts, cur, prune, M, play, games, call, err>>

Next == SolveTask \/ SolveDone

Spec == Init /\ [][Next]_vars

(***************************************************************************)
(* The games, on the object that k = Knuth() returned.                     *)
(***************************************************************************)
Built(the_prune) ==
  \E k \in {Knuth(the_prune)} :
    /\ pc = IF k.raised = None THEN "built" ELSE "raised"
    /\ nodes = k.nodes
    /\ counts = k.counts
    /\ q = k.q
    /\ cur = k.locals
    /\ err = k.raised
    /\ prune = the_prune
    /\ M = NoEnv
    /\ play = NoPlay
    /\ games = << >>
    /\ call = NoCall

InitPlay == Built(TRUE)

\* the seeds that play is called with are 0..MaxSeed
MaxSeed == 2

\* k.play(secret=secret) is called and runs up to its loop
PlayStart ==
  /\ pc = "built"
  /\ \E secret \in AllCodes :
       \E pro \in {play_prologue(None, Some(secret), starting_possibilities[1])} :
         /\ M' = pro.M
         /\ play' = pro.play
  /\ pc' = "play"
  /\ UNCHANGED <<q, nodes, counts, cur, prune, games, call, err>>

\* one iteration of the loop of play; the break is followed by "return turns"
PlayStep ==
  /\ pc = "play"
  /\ \E it \in {play_iteration(play, M, nodes)} :
       /\ M' = it.M
       /\ play' = it.play
       /\ err' = it.raised
       /\ pc' = IF it.raised # None THEN "raised"
                ELSE IF it.broke THEN "returned" ELSE "play"
  /\ UNCHANGED <<q, nodes, counts, cur, prune, games, call>>

\* k.test_all()
TestAll ==
  /\ pc = "built"
  /\ \E c \in {test_all(nodes)} :
       /\ games' = c.games
       /\ err' = c.raised
       /\ pc' = IF c.raised = None THEN "done" ELSE "raised"
  /\ UNCHANGED <<q, nodes, counts, cur, prune, M, play, call>>

NextPlay == PlayStart \/ PlayStep \/ TestAll

SpecPlay == InitPlay /\ [][NextPlay]_vars

\* a call of play runs on until it returns or raises
FairSpecPlay == SpecPlay /\ WF_vars(PlayStep)

(***************************************************************************)
(* The cells of the notebook that run before k = Knuth(): no Knuth object, *)
(* no game.                                                                *)
(***************************************************************************)
NoKnuth ==
  /\ q = <<>>
  /\ nodes = <<>>
  /\ counts = << >>
  /\ cur = NoLocals
  /\ prune = TRUE
  /\ play = NoPlay
  /\ games = << >>
  /\ err = None

\* the sequences of length n over S
RECURSIVE Tuples(_, _)
Tuples(S, n) ==
  IF n = 0 THEN {<<>>}
  ELSE {Append(t, x) : t \in Tuples(S, n - 1), x \in S}

Request(fn, arg) == [fn |-> fn, arg |-> arg, ret |-> None, raised |-> None, done |-> FALSE]
Reply(fn, arg, ret, raised) ==
  [fn |-> fn, arg |-> arg, ret |-> ret, raised |-> raised, done |-> TRUE]

(***************************************************************************)
(* The codec, called on sequences of integers and on integers, valid or    *)
(* not: four elements within ColorSlack of 1..6, or colors in a sequence   *)
(* of a length within LenSlack of 4; indexes within IndexSlack of 0..1295. *)
(***************************************************************************)
LenSlack == 1
ColorSlack == 1
IndexSlack == 3

CodecGuesses ==
  Tuples((1 - ColorSlack)..(NumColors + ColorSlack), NumPegs)
    \cup UNION {Tuples(1..NumColors, n) : n \in (NumPegs - LenSlack)..(NumPegs + LenSlack)}
CodecIndexes == (0 - IndexSlack)..(NumCodes - 1 + IndexSlack)

ValidCode(guess) == Len(guess) = NumPegs /\ \A k \in 1..Len(guess) : guess[k] \in 1..NumColors
ValidIndex(index) == index \in 0..(NumCodes - 1)

InitCodec ==
  /\ pc = "codec"
  /\ call \in {Request("encode_guess", guess) : guess \in CodecGuesses}
              \cup {Request("decode_guess", index) : index \in CodecIndexes}
  /\ M = NoEnv
  /\ NoKnuth

CallEncode ==
  /\ pc = "codec"
  /\ call.fn = "encode_guess" /\ ~call.done
  /\ \E r \in {call_encode_guess(call.arg)} :
       call' = Reply(call.fn, call.arg, r.ret, r.raised)
  /\ UNCHANGED <<pc, q, nodes, counts, cur, prune, M, play, games, err>>

CallDecode ==
  /\ pc = "codec"
  /\ call.fn = "decode_guess" /\ ~call.done
  /\ \E r \in {call_decode_guess(call.arg)} :
       call' = Reply(call.fn, call.arg, r.ret, r.raised)
  /\ UNCHANGED <<pc, q, nodes, counts, cur, prune, M, play, games, err>>

NextCodec == CallEncode \/ CallDecode

SpecCodec == InitCodec /\ [][NextCodec]_vars

(***************************************************************************)
(* The score table after the cell that fills it, read one row at a time.   *)
(***************************************************************************)
InitTable ==
  /\ pc = "table"
  /\ call \in {Request("scores", row) : row \in 0..(NumCodes - 1)}
  /\ M = NoEnv
  /\ NoKnuth

\* scores[row, :]
ReadRow ==
  /\ pc = "table"
  /\ ~call.done
  /\ call' = Reply(call.fn, call.arg,
                   Some([n \in 1..NumCodes |-> scores(call.arg, n - 1)]), None)
  /\ UNCHANGED <<pc, q, nodes, counts, cur, prune, M, play, games, err>>

NextTable == ReadRow

SpecTable == InitTable /\ [][NextTable]_vars

(***************************************************************************)
(* The game environment under any sequence of reset, set and step.  The    *)
(* secrets are EnvPool codes spread over the 1,296, the guesses are the    *)
(* starting guesses, and a game holds at most MaxHistory steps.            *)
(***************************************************************************)
EnvPool == 12
MaxHistory == 2

EnvSecrets == {decode_guess((k * 97) % NumCodes) : k \in 0..(EnvPool - 1)}
EnvGuesses == Range(starting_guesses)

InitEnv ==
  /\ pc = "env"
  /\ \E return_history \in BOOLEAN, drawn \in EnvSecrets :
       /\ M = Mastermind_init(return_history, drawn)
       /\ call = Reply("Mastermind", return_history, None, None)
  /\ NoKnuth

EnvReset ==
  /\ pc = "env"
  /\ \E drawn \in EnvSecrets : M' = Mastermind_reset(M, drawn)
  /\ call' = Reply("reset", None, None, None)
  /\ UNCHANGED <<pc, q, nodes, counts, cur, prune, play, games, err>>

EnvSet ==
  /\ pc = "env"
  /\ \E secret \in EnvSecrets :
       /\ M' = Mastermind_set(M, secret)
       /\ call' = Reply("set", secret, None, None)
  /\ UNCHANGED <<pc, q, nodes, counts, cur, prune, play, games, err>>

EnvStep ==
  /\ pc = "env"
  /\ Len(M.history) < MaxHistory
  /\ \E guess \in EnvGuesses :
       \E r \in {Mastermind_step(M, guess)} :
         /\ M' = r.env
         /\ call' = Reply("step", guess, Some(r.ret), None)
  /\ UNCHANGED <<pc, q, nodes, counts, cur, prune, play, games, err>>

NextEnv == EnvReset \/ EnvSet \/ EnvStep

SpecEnv == InitEnv /\ [][NextEnv]_vars

(***************************************************************************)
(* solve() on a queue that holds one task of the caller's: the root as     *)
(* parent, as remaining some of the first TaskPool codes in their order,   *)
(* and as candidates None, no guess, (1, 1, 2, 2) or the starting guesses. *)
(***************************************************************************)
TaskPool == 5

SubSeqs(s) ==
  {r \in UNION {Tuples(Range(s), n) : n \in 0..Len(s)} :
     \A k \in 1..(Len(r) - 1) : r[k] < r[k + 1]}

TaskRemainings == SubSeqs(SubSeq(starting_poss_indexes, 1, TaskPool))
TaskGuesses ==
  {None, Some(<<>>), Some(<<encode_guess(<<1, 1, 2, 2>>)>>), Some(starting_guess_indexes)}

InitTask ==
  /\ pc = "solve"
  /\ nodes = Knuth_fields.nodes
  /\ counts = Knuth_fields.counts
  /\ q \in {<<Task(1, None, remaining, guesses)>> :
              remaining \in TaskRemainings, guesses \in TaskGuesses}
  /\ cur = Knuth_fields.locals
  /\ prune = TRUE
  /\ M = NoEnv
  /\ play = NoPlay
  /\ games = << >>
  /\ call = NoCall
  /\ err = None

SpecTask == InitTask /\ [][Next]_vars

(***************************************************************************)
(* solve() with the queue taken in any order: the task is taken from any   *)
(* place of the queue where the code takes the leftmost.  The queue holds  *)
(* at first one task of the caller's, with as remaining OrderPool codes    *)
(* spread over the 1,296 or all but one of them, and as candidates         *)
(* (1, 1, 2, 2) or the starting guesses.                                   *)
(***************************************************************************)
OrderPool == 5

OrderCodes == [k \in 1..OrderPool |-> ((k - 1) * 97) % NumCodes]
OrderRemainings == {r \in SubSeqs(OrderCodes) : Len(r) >= OrderPool - 1}
OrderGuesses == {Some(<<encode_guess(<<1, 1, 2, 2>>)>>), Some(starting_guess_indexes)}

\* the queue with its i-th task moved to the left end
taken(queue, i) ==
  <<queue[i]>> \o SubSeq(queue, 1, i - 1) \o SubSeq(queue, i + 1, Len(queue))

\* the Knuth object whose queue holds the one task
Knuth_with(task) == [Knuth_fields EXCEPT !.q = <<task>>]

InitOrder ==
  /\ pc = "solve"
  /\ \E remaining \in OrderRemainings, guesses \in OrderGuesses :
       /\ q = <<Task(1, None, remaining, guesses)>>
       /\ call = Request("solve", Task(1, None, remaining, guesses))
  /\ nodes = Knuth_fields.nodes
  /\ counts = Knuth_fields.counts
  /\ cur = Knuth_fields.locals
  /\ prune = TRUE
  /\ M = NoEnv
  /\ play = NoPlay
  /\ games = << >>
  /\ err = None

SolveAny ==
  /\ pc = "solve"
  /\ \E i \in 1..Len(q) :
       \E k \in {solve_once([q |-> taken(q, i), nodes |-> nodes, counts |-> counts,
                             raised |-> err, locals |-> cur], prune)} :
         /\ q' = k.q
         /\ nodes' = k.nodes
         /\ counts' = k.counts
         /\ cur' = k.locals
         /\ err' = k.raised
         /\ pc' = IF k.raised = None THEN pc ELSE "raised"
  /\ UNCHANGED <<prune, M, play, games, call>>

NextOrder == SolveAny \/ SolveDone

SpecOrder == InitOrder /\ [][NextOrder]_vars

\* k.play(seed=seed) is called and runs up to its loop; the secret is the one
\* that random.choices draws in reset(), which may be any code
PlaySeed ==
  /\ pc = "built"
  /\ \E seed \in 0..MaxSeed, drawn \in AllCodes :
       \E pro \in {play_prologue(Some(seed), None, drawn)} :
         /\ M' = pro.M
         /\ play' = pro.play
         /\ call' = Request("play", seed)
  /\ pc' = "play"
  /\ UNCHANGED <<q, nodes, counts, cur, prune, games, err>>

NextSeed == PlaySeed \/ PlayStep

SpecSeed == InitPlay /\ [][NextSeed]_vars

(***************************************************************************)
(* C1: for every one of the 1,296 secrets, play(secret=s) on the built     *)
(* tree ends by receiving the score (4, 0) and returns at most 5 turns.    *)
(* No lookup in node.children fails, the turn counter never passes 5, the  *)
(* call returns on the score (4, 0) of a guess that is the secret, and     *)
(* every call that has started returns.                                    *)
(***************************************************************************)
C1_GameSafe ==
  /\ err = None
  /\ pc = "play" => play.turns <= 5
  /\ pc = "returned" =>
        /\ play.score = <<4, 0>>
        /\ play.turns \in 1..5
        /\ nodes[play.node].guess = M.secret

C1_PlayWinsWithinFive == [](C1_GameSafe) /\ ((pc = "play") ~> (pc = "returned"))

C1_Witness ==
  /\ pc = "returned" /\ play.turns = 5 /\ play.score = <<4, 0>>
  /\ nodes[play.node].guess = M.secret

(***************************************************************************)
(* C2: test_all counts 1 game of 1 turn, 6 of 2 turns, 62 of 3 turns, 533  *)
(* of 4 turns and 694 of 5 turns.                                          *)
(***************************************************************************)
C2_Expected == (1 :> 1) @@ (2 :> 6) @@ (3 :> 62) @@ (4 :> 533) @@ (5 :> 694)

C2_TurnDistribution == pc = "done" => games = C2_Expected

C2_Witness == pc = "done" /\ DOMAIN games = 1..5 /\ err = None

(***************************************************************************)
(* C10: the guess of the node that an iteration of solve() creates has the *)
(* least cost among the candidates of its task, the cost of a candidate    *)
(* being the size of the largest group of remaining secrets that score the *)
(* same against it.                                                        *)
(***************************************************************************)
C10_MinimaxSelection ==
  (pc = "solve" /\ cur.node # 0) =>
    LET chosen == encode_guess(nodes[cur.node].guess)
        candidates == Range(cur.guesses[1])
        remset == Range(cur.remaining)
        cost == group_max(chosen, remset)
    IN /\ chosen \in candidates
       /\ \A c \in candidates : cost <= group_max(c, remset)

C10_Witness ==
  /\ pc = "solve" /\ cur.node # 0 /\ cur.depth = 3
  /\ Len(cur.remaining) > 1
  /\ cur.best_guess[1] \notin Range(cur.remaining)

(***************************************************************************)
(* C3: encode_guess and decode_guess are mutual inverses on valid input:   *)
(* decode_guess of an index in 0..1295 is a code that encode_guess takes   *)
(* back to the index, and encode_guess of a code of four colors in 1..6 is *)
(* an index in 0..1295 that decode_guess takes back to the code.           *)
(***************************************************************************)
C3_RoundTrip ==
  /\ (call.done /\ call.fn = "decode_guess" /\ ValidIndex(call.arg)) =>
        /\ ValidCode(call.ret[1])
        /\ encode_guess(call.ret[1]) = call.arg
  /\ (call.done /\ call.fn = "encode_guess" /\ ValidCode(call.arg)) =>
        /\ ValidIndex(call.ret[1])
        /\ decode_guess(call.ret[1]) = call.arg

C3_Witness ==
  /\ call.done /\ call.fn = "encode_guess"
  /\ call.arg = <<2, 5, 1, 6>> /\ call.ret = Some(365)

(***************************************************************************)
(* C4: every cell of the score table, the mirrored ones below the diagonal *)
(* included, is encode_score of get_score of the row's and the column's    *)
(* code, so that direct scoring is symmetric.                              *)
(***************************************************************************)
C4_TableIsDirectScore ==
  (pc = "table" /\ call.done) =>
    \A col \in 0..(NumCodes - 1) :
      /\ call.ret[1][col + 1] =
           encode_score(get_score(starting_possibilities[call.arg + 1],
                                  starting_possibilities[col + 1]))
      /\ call.ret[1][col + 1] = scores(col, call.arg)

C4_Witness ==
  /\ pc = "table" /\ call.done /\ call.arg = NumCodes - 1
  /\ call.ret[1][2] = encode_score(<<0, 0>>)

(***************************************************************************)
(* C5: the score of every code index against itself is WIN, the encoded    *)
(* score (4, 0).                                                           *)
(***************************************************************************)
C5_DiagonalWins ==
  (pc = "table" /\ call.done) =>
    /\ call.ret[1][call.arg + 1] = WIN
    /\ WIN = 64
    /\ decode_score(call.ret[1][call.arg + 1]) = <<4, 0>>

C5_Witness ==
  /\ pc = "table" /\ call.done /\ call.arg = 700
  /\ call.ret[1][701] = WIN

(***************************************************************************)
(* C6, as claimed: encode_guess fails with InvalidCode when the length is  *)
(* not 4 or a color is outside 1..6, decode_guess fails with InvalidCode   *)
(* when the index is outside 0..1295, and neither fails on valid input.    *)
(***************************************************************************)
C6_RejectsInvalid ==
  /\ (call.done /\ call.fn = "encode_guess") =>
        (call.raised = Some("InvalidCode") <=> ~ValidCode(call.arg))
  /\ (call.done /\ call.fn = "decode_guess") =>
        (call.raised = Some("InvalidCode") <=> ~ValidIndex(call.arg))

(***************************************************************************)
(* C6, amended: the codec checks nothing and fails on no sequence of       *)
(* integers and no integer.  encode_guess returns the base-6 value of the  *)
(* digits color - 1, whatever the length and the colors; decode_guess      *)
(* returns the code of the index modulo 1296.                              *)
(***************************************************************************)
RECURSIVE C6_Horner(_)
C6_Horner(guess) ==
  IF guess = <<>> THEN 0
  ELSE 6 * C6_Horner(SubSeq(guess, 1, Len(guess) - 1)) + (guess[Len(guess)] - 1)

C6_NoValidation ==
  /\ (call.done /\ call.fn = "encode_guess") =>
        /\ call.raised = None
        /\ call.ret = Some(C6_Horner(call.arg))
  /\ (call.done /\ call.fn = "decode_guess") =>
        /\ call.raised = None
        /\ call.ret = Some(starting_possibilities[(call.arg % NumCodes) + 1])

C6_Witness ==
  /\ call.done /\ call.fn = "encode_guess"
  /\ call.arg = <<7, 1, 1, 1>> /\ call.ret = Some(NumCodes) /\ call.raised = None

(***************************************************************************)
(* C7, as claimed: an iteration of solve() that finds no best guess for a  *)
(* non-empty remaining set ends the construction with the exception        *)
(* InconsistentSearchState.                                                *)
(***************************************************************************)
C7_ZeroCandidates ==
  cur.depth > 0 /\ cur.best_guess = None /\ Len(cur.remaining) > 0

C8_StatelessScoring ==
  pc = "env" =>
    /\ M.secret_counts = Counter(M.secret)
    /\ (call.fn = "step" /\ ~M.return_history) =>
          call.ret = Some(get_score(call.arg, M.secret))
    /\ call.fn = "step" =>
          M.history[Len(M.history)] = <<call.arg, get_score(call.arg, M.secret)>>

C8_Witness ==
  /\ pc = "env" /\ call.fn = "step" /\ ~M.return_history
  /\ Len(M.history) = 2
  /\ M.history[1][1] # M.history[2][1]
  /\ call.ret[1][2] > 0

(***************************************************************************)
(* C9: the tree built with the depth-2 candidates restricted by check_wlog *)
(* plays every secret to its end, and its worst number of turns over the   *)
(* 1,296 secrets is not larger than that of the tree built with all 1,296  *)
(* codes as depth-2 candidates, all else equal.                            *)
(***************************************************************************)
C9_PruningSound ==
  /\ pc # "raised"
  /\ (pc = "done" /\ prune) =>
        LET unrestricted == Knuth(FALSE)
            free == test_all(unrestricted.nodes)
        IN /\ unrestricted.raised = None
           /\ free.raised = None
           /\ SetMax(DOMAIN games) <= SetMax(DOMAIN free.games)

C9_Witness ==
  /\ pc = "done" /\ prune /\ err = None
  /\ SetMax(DOMAIN games) = 5
  /\ counts[2] = 12

(***************************************************************************)
(* C11: among the candidates of least cost of a task, the guess selected   *)
(* is the first one in enumeration order that is a member of the remaining *)
(* set when there is such a one, and the first one of all otherwise.       *)
(***************************************************************************)
C11_FirstOf(candidates, remset) ==
  LET cost == [i \in 1..Len(candidates) |-> group_max(candidates[i], remset)]
      costs == {cost[i] : i \in 1..Len(candidates)}
      least == CHOOSE c \in costs : \A d \in costs : c <= d
      ties == {i \in 1..Len(candidates) : cost[i] = least}
      members == {i \in ties : candidates[i] \in remset}
      first(S) == CHOOSE i \in S : (1..(i - 1)) \cap S = {}
  IN [any |-> candidates[first(ties)],
      chosen |-> IF members # {} THEN candidates[first(members)] ELSE candidates[first(ties)]]

C11_TieBreak ==
  (pc = "solve" /\ cur.node # 0) =>
    /\ cur.best_guess = Some(C11_FirstOf(cur.guesses[1], Range(cur.remaining)).chosen)
    /\ nodes[cur.node].guess = decode_guess(cur.best_guess[1])

C11_Witness ==
  /\ pc = "solve" /\ cur.node # 0
  /\ cur.best_guess[1] \in Range(cur.remaining)
  /\ cur.best_guess[1] # C11_FirstOf(cur.guesses[1], Range(cur.remaining)).any

(***************************************************************************)
(* C12: the tasks that an iteration of solve() appends for its new node    *)
(* have non-empty, pairwise disjoint remaining sets, each holding exactly  *)
(* the members of the task's remaining set, the selected guess excepted,   *)
(* that score the task's key against the guess; together they hold all of *)
(* them.  No task in the queue and no children mapping has the win score   *)
(* as a key.                                                               *)
(***************************************************************************)
C12_Appended == {k \in 1..Len(q) : q[k].parent_node = cur.node}

C12_Partition ==
  /\ (pc = "solve" /\ cur.node # 0) =>
        LET best == cur.best_guess[1]
            rest == Range(cur.remaining) \ {best}
        IN /\ \A k \in C12_Appended :
                /\ q[k].remaining # <<>>
                /\ q[k].previous_score # None
                /\ Range(q[k].remaining) =
                     {r \in rest : scores(best, r) = q[k].previous_score[1]}
                /\ Len(q[k].remaining) = Cardinality(Range(q[k].remaining))
                /\ \A j \in C12_Appended :
                     j # k => Range(q[j].remaining) \cap Range(q[k].remaining) = {}
           /\ UNION {Range(q[k].remaining) : k \in C12_Appended} = rest
           /\ <<4, 0>> \notin DOMAIN nodes[cur.parent_node].children
  /\ \A k \in 1..Len(q) : q[k].previous_score # Some(WIN)
  /\ pc = "built" => \A n \in 1..Len(nodes) : <<4, 0>> \notin DOMAIN nodes[n].children

C12_Witness ==
  /\ pc = "solve" /\ cur.node # 0
  /\ cur.best_guess[1] \in Range(cur.remaining)
  /\ Cardinality(C12_Appended) > 2
  /\ \E k \in C12_Appended : Len(q[k].remaining) > 1

(***************************************************************************)
(* C13: every task that solve() appends has a remaining set smaller than   *)
(* that of the task whose iteration appended it, and the queue drains:     *)
(* the sum over the queued tasks of the square of the size of the          *)
(* remaining set plus one, a natural number, gets smaller with every       *)
(* iteration of the loop, so that the loop ends after at most as many      *)
(* iterations as that sum is at the start.                                 *)
(***************************************************************************)
RECURSIVE C13_Sum(_, _, _)
C13_Sum(tasks, lo, hi) ==
  IF lo > hi THEN 0
  ELSE IF lo = hi THEN Len(tasks[lo].remaining) * Len(tasks[lo].remaining) + 1
  ELSE C13_Sum(tasks, lo, (lo + hi) \div 2) + C13_Sum(tasks, ((lo + hi) \div 2) + 1, hi)

C13_Variant == C13_Sum(q, 1, Len(q))

C13_Shrinks ==
  /\ (pc = "solve" /\ cur.node # 0) =>
        \A k \in 1..Len(q) :
          q[k].parent_node = cur.node => Len(q[k].remaining) < Len(cur.remaining)
  /\ err = None

C13_Terminates ==
  /\ [](C13_Shrinks)
  /\ [][/\ (pc = "solve" /\ q # <<>>) => (pc' = "solve" /\ C13_Variant' < C13_Variant)
        /\ (pc = "solve" /\ q = <<>>) => pc' = "built"]_vars

C13_Witness ==
  /\ pc = "solve" /\ cur.depth = 3 /\ cur.node # 0 /\ err = None
  /\ \E k \in 1..Len(q) :
       /\ q[k].parent_node = cur.node
       /\ Len(q[k].remaining) \in 2..(Len(cur.remaining) - 1)
  /\ C13_Variant < NumCodes * NumCodes

(***************************************************************************)
(* C14: the finished tree is the same in whatever order the tasks are      *)
(* taken from the queue: its nodes, each named by the scores on the way    *)
(* from the root, with their guess, their depth and the scores and guesses *)
(* of their children, and the counts per depth, are those of the tree that *)
(* solve() builds taking the leftmost task.                                *)
(***************************************************************************)
RECURSIVE C14_Path(_, _)
C14_Path(the_nodes, n) ==
  LET p == the_nodes[n].parent_node
  IN IF p = 0 THEN <<>>
     ELSE Append(C14_Path(the_nodes, p),
                 {key \in DOMAIN the_nodes[p].children : the_nodes[p].children[key] = n})

C14_Tree(the_nodes) ==
  {[path |-> C14_Path(the_nodes, n),
    guess |-> the_nodes[n].guess,
    depth |-> the_nodes[n].depth,
    children |-> {<<key, the_nodes[the_nodes[n].children[key]].guess>> :
                    key \in DOMAIN the_nodes[n].children}] : n \in 1..Len(the_nodes)}

C14_OrderIndependent ==
  (pc \in {"built", "raised"} /\ call.fn = "solve") =>
    LET leftmost == solve(Knuth_with(call.arg), NumCodes, prune)
    IN /\ C14_Tree(nodes) = C14_Tree(leftmost.nodes)
       /\ counts = leftmost.counts
       /\ err = leftmost.raised

C14_Witness ==
  /\ pc = "built" /\ call.fn = "solve" /\ err = None
  /\ Len(nodes) > OrderPool
  /\ nodes # solve(Knuth_with(call.arg), NumCodes, prune).nodes

(***************************************************************************)
(* C15: the assertion of solve() never fails.  The first node, selected    *)
(* from the five starting guesses over all 1,296 secrets, has the guess    *)
(* (1, 1, 2, 2); it is the only node of depth 1, and every task taken from *)
(* the queue with a parent of depth 1 has it as parent.                    *)
(***************************************************************************)
C15_AssertionHolds ==
  /\ err = None /\ pc # "raised"
  /\ \A n \in 1..Len(nodes) :
        nodes[n].depth = 1 => (n = 2 /\ nodes[n].guess = <<1, 1, 2, 2>>)
  /\ \A k \in 1..Len(q) :
        nodes[q[k].parent_node].depth = 1 =>
          nodes[q[k].parent_node].guess = <<1, 1, 2, 2>>
  /\ cur.depth = 2 => nodes[cur.parent_node].guess = <<1, 1, 2, 2>>
  /\ cur.depth = 1 =>
        /\ cur.guesses = Some(starting_guess_indexes)
        /\ cur.remaining = starting_poss_indexes
        /\ cur.best_guess = Some(encode_guess(<<1, 1, 2, 2>>))

C15_Witness ==
  /\ pc = "solve" /\ err = None
  /\ cur.depth = 2 /\ cur.node # 0
  /\ nodes[cur.parent_node].guess = <<1, 1, 2, 2>>
  /\ Len(nodes) = 14

(***************************************************************************)
(* C16: play called with a seed and no secret plays one full game.  The    *)
(* environment returns from each step a single score (it does not return   *)
(* the history), no lookup in node.children fails, and play returns, on    *)
(* the score (4, 0), a number of turns that is the number of guesses made. *)
(***************************************************************************)
C16_SeededGame ==
  call.fn = "play" =>
    /\ ~M.return_history
    /\ err = None /\ pc # "raised"
    /\ pc = "returned" =>
          /\ play.score = <<4, 0>>
          /\ play.turns = Len(M.history)
          /\ nodes[play.node].guess = M.secret

====
